---- MODULE Spec2Model ----
(***************************************************************************)
(* Model of the vehicle-registration pipeline: load_and_normalize          *)
(* (src/src/data_loader.py), aggregate, compute_growth and                 *)
(* top_n_manufacturers (src/src/processing.py).                            *)
(*                                                                         *)
(* The functions are pure table transformations.  Each one is an operator  *)
(* computed the way the code computes it, and each has a specification     *)
(* whose Init draws the call's arguments from bounded sets and whose       *)
(* action performs the call and stores what it returned or raised.         *)
(*                                                                         *)
(* Representation                                                          *)
(*   timestamp   an integer: (months since January of year 0) * 31 +       *)
(*               (day of month - 1); NaT is -1.  The tables given to       *)
(*               aggregate, compute_growth and top_n_manufacturers count   *)
(*               years from 2020; the loader's years are calendar years.   *)
(*   string      key columns of those tables are TLA+ strings; the texts   *)
(*               the loader reads are sequences of characters.             *)
(*   float       totals and registrations are integers (the counts of the  *)
(*               inputs are integral); a growth cell is a record           *)
(*               [kind, n, d]: kind "nan" (pandas' null), "inf", "ninf",   *)
(*               or "num" with the exact rational n/d in lowest terms.     *)
(*               Binary rounding of the doubles is not modelled.           *)
(*   DataFrame   a sequence of row records, in row order.                  *)
(***************************************************************************)
EXTENDS Integers, Sequences, FiniteSets, TLC

VARIABLES
    fn,         \* the function this run calls
    pc,         \* the call to make next; "done" or "raised" after the last
    df,         \* aggregate: the input table (canonical records)
    hasMetric,  \* aggregate / compute_growth: the metric column is present
    freq,       \* aggregate / compute_growth: the granularity argument
    out,        \* aggregate: [err, rows] returned by aggregate(df, freq)
    out2,       \* aggregate: [err, rows] of aggregate(renamed out, freq)
    agg,        \* compute_growth: the input table (aggregated rows)
    gout,       \* compute_growth: [err, main, q] returned by compute_growth(agg, freq)
    files,      \* load_and_normalize: the files the glob found, in its order
    loaded,     \* load_and_normalize: [err, rows] returned or raised
    topArgs,    \* top_n_manufacturers: [df_agg, hasManufacturer, period, n]
    top         \* top_n_manufacturers: the table returned

vars == <<fn, pc, df, hasMetric, freq, out, out2, agg, gout, files, loaded, topArgs, top>>

\* A value for the variables a specification does not use.
Idle == "idle"

(***************************************************************************)
(* Timestamps                                                              *)
(***************************************************************************)
NaT == -1

Stamp(y, m, d) == ((y * 12) + (m - 1)) * 31 + (d - 1)

MonthIndex(p) == p \div 31

\* to_period("M" / "Q" / "Y").to_timestamp(): the start of the enclosing
\* month / quarter / year; NaT stays NaT.
MonthStart(p) == IF p = NaT THEN NaT ELSE MonthIndex(p) * 31

QuarterStart(p) == IF p = NaT THEN NaT ELSE (MonthIndex(p) - (MonthIndex(p) % 3)) * 31

YearStart(p) == IF p = NaT THEN NaT ELSE (MonthIndex(p) - (MonthIndex(p) % 12)) * 31

(***************************************************************************)
(* Key columns.  Strings are ordered as Python orders them; the two        *)
(* sequences list the values the model uses in that order.                 *)
(***************************************************************************)
Categories == <<"2W", "3W", "4W", "OTHER">>

Manufacturers == <<"Acme", "Bolt", "Cyan">>

\* A missing cell of a key column (NaN).
NoName == "NaN"

CatRank(c) == CHOOSE i \in 1..Len(Categories) : Categories[i] = c

MfrRank(m) == CHOOSE i \in 1..Len(Manufacturers) : Manufacturers[i] = m

Freqs == {"M", "Q", "Y"}

\* A granularity value outside the supported three.
BadFreq == "W"

(***************************************************************************)
(* Generic helpers                                                         *)
(***************************************************************************)
RECURSIVE SumSeq(_)
SumSeq(s) == IF s = <<>> THEN 0 ELSE Head(s) + SumSeq(Tail(s))

RECURSIVE SelectIdx(_, _)
\* The subsequence of s at the indices in I, in order.
SelectIdx(s, I) ==
    IF I = {} THEN <<>>
    ELSE LET i == CHOOSE x \in I : \A y \in I : x <= y
         IN  <<s[i]>> \o SelectIdx(s, I \ {i})

Range(s) == {s[i] : i \in 1..Len(s)}

(***************************************************************************)
(* Aggregator: aggregate(df, freq)                                         *)
(***************************************************************************)
\* The period_floor column for a supported freq.
PeriodFloor(p, f) ==
    CASE f = "M" -> MonthStart(p)
      [] f = "Q" -> QuarterStart(p)
      [] f = "Y" -> YearStart(p)

\* groupby(...) leaves out the rows with a null in a key column (dropna).
HasKey(r) ==
    /\ r.period /= NaT
    /\ r.vehicle_category /= NoName
    /\ r.manufacturer /= NoName

GroupKey(r, f) ==
    [period           |-> PeriodFloor(r.period, f),
     vehicle_category |-> r.vehicle_category,
     manufacturer     |-> r.manufacturer]

\* The rows of d whose group is k, in row order.
GroupMembers(d, f, k) ==
    SelectIdx(d, {i \in 1..Len(d) : HasKey(d[i]) /\ GroupKey(d[i], f) = k})

\* Mutant of GroupTotal: "first" in place of "sum".
GroupTotal_first(d, f, k, col) == GroupMembers(d, f, k)[1][col]

\* Mutant of GroupTotal: "count" in place of "sum".
GroupTotal_count(d, f, k, col) == Len(GroupMembers(d, f, k))

\* agg(total = (col, "sum")) of one group.
GroupTotal(d, f, k, col) ==
    LET g == GroupMembers(d, f, k)
    IN  SumSeq([i \in 1..Len(g) |-> g[i][col]])

\* groupby sorts the groups by (period_floor, vehicle_category, manufacturer).
GroupLess(a, b) ==
    \/ a.period < b.period
    \/ /\ a.period = b.period
       /\ \/ CatRank(a.vehicle_category) < CatRank(b.vehicle_category)
          \/ /\ a.vehicle_category = b.vehicle_category
             /\ MfrRank(a.manufacturer) < MfrRank(b.manufacturer)

RECURSIVE GroupOrder(_)
\* The keys of K as a sequence in groupby's order.
GroupOrder(K) ==
    IF K = {} THEN <<>>
    ELSE LET k == CHOOSE x \in K : \A y \in K \ {x} : GroupLess(x, y)
         IN  <<k>> \o GroupOrder(K \ {k})

\* groupby([bucket, "vehicle_category", "manufacturer"], as_index=False)
\*   .agg(total=(col, "sum")), the bucket column named period.
GroupBySum(d, f, col) ==
    LET keys == GroupOrder({GroupKey(d[i], f) : i \in {j \in 1..Len(d) : HasKey(d[j])}})
    IN  [i \in 1..Len(keys) |->
            [period           |-> keys[i].period,
             vehicle_category |-> keys[i].vehicle_category,
             manufacturer     |-> keys[i].manufacturer,
             total            |-> GroupTotal(d, f, keys[i], col)]]

\* The order of sort_values(["vehicle_category", "manufacturer", "period"]).
SortLess(a, b) ==
    \/ CatRank(a.vehicle_category) < CatRank(b.vehicle_category)
    \/ /\ a.vehicle_category = b.vehicle_category
       /\ \/ MfrRank(a.manufacturer) < MfrRank(b.manufacturer)
          \/ /\ a.manufacturer = b.manufacturer
             /\ a.period < b.period

\* x placed after the rows of the sorted s that are not greater than it.
InsertRow(s, x) ==
    LET n == Cardinality({i \in 1..Len(s) : ~SortLess(x, s[i])})
    IN  SubSeq(s, 1, n) \o <<x>> \o SubSeq(s, n + 1, Len(s))

RECURSIVE SortValues(_)
SortValues(s) ==
    IF s = <<>> THEN <<>>
    ELSE InsertRow(SortValues(SubSeq(s, 1, Len(s) - 1)), s[Len(s)])

NoTable == <<>>

Returned(rows) == [err |-> "none", rows |-> rows]

\* raise ValueError("freq must be 'M', 'Q', or 'Y'"): nothing is returned.
UnsupportedFreq == [err |-> "ValueError", rows |-> NoTable]

\* Mutant of aggregate: a freq it does not know taken as yearly.
aggregate_fallback(d, has, f) ==
    IF d = <<>> \/ ~has THEN Returned(<<>>)
    ELSE Returned(SortValues(GroupBySum(d, IF f \in Freqs THEN f ELSE "Y", "registrations")))

aggregate(d, has, f) ==
    IF d = <<>> \/ ~has THEN Returned(<<>>)
    ELSE IF f \notin Freqs THEN UnsupportedFreq
    ELSE Returned(SortValues(GroupBySum(d, f, "registrations")))

\* An aggregated table with its total column renamed to registrations.
RenameTotal(rows) ==
    [i \in 1..Len(rows) |->
        [period           |-> rows[i].period,
         vehicle_category |-> rows[i].vehicle_category,
         manufacturer     |-> rows[i].manufacturer,
         registrations    |-> rows[i].total]]

(***************************************************************************)
(* Growth cells: the float results of pct_change                           *)
(***************************************************************************)
NaN == [kind |-> "nan", n |-> 0, d |-> 1]

PosInf == [kind |-> "inf", n |-> 1, d |-> 1]

NegInf == [kind |-> "ninf", n |-> -1, d |-> 1]

Abs(x) == IF x < 0 THEN -x ELSE x

RECURSIVE GCD(_, _)
GCD(a, b) == IF b = 0 THEN a ELSE GCD(b, a % b)

\* The number n/d (d /= 0), in lowest terms with a positive denominator.
Ratio(n, d) ==
    LET g == GCD(Abs(n), Abs(d))
        s == IF d < 0 THEN -1 ELSE 1
    IN  [kind |-> "num", n |-> (s * n) \div g, d |-> (s * d) \div g]

\* cur / prev - 1 in float arithmetic: a nonzero number over 0 is an
\* infinity, 0 / 0 is NaN, and neither changes under - 1.
DivMinusOne(cur, prev) ==
    IF prev = 0
    THEN IF cur = 0 THEN NaN ELSE IF cur > 0 THEN PosInf ELSE NegInf
    ELSE Ratio(cur - prev, prev)

\* c * 100
Times100(c) == IF c.kind = "num" THEN Ratio(c.n * 100, c.d) ELSE c

(***************************************************************************)
(* Growth engine: compute_growth(agg, freq)                                *)
(***************************************************************************)
SamePart(a, b) ==
    a.vehicle_category = b.vehicle_category /\ a.manufacturer = b.manufacturer

\* The rows of s before row i in row i's group, in row order.
Earlier(s, i) == {j \in 1..(i - 1) : SamePart(s[j], s[i])}

\* s.shift(k) at row i of its group: the index of the row k places earlier
\* in the group, 0 when the group has no such row.
Shifted(s, i, k) ==
    LET e == Earlier(s, i)
    IN  IF Cardinality(e) < k THEN 0
        ELSE CHOOSE j \in e : Cardinality({x \in e : x >= j}) = k

\* groupby(["vehicle_category", "manufacturer"])["total"]
\*   .transform(lambda s: s.pct_change(k) * 100), at row i.
PctChange(s, i, k) ==
    LET j == Shifted(s, i, k)
    IN  IF j = 0 THEN NaN ELSE Times100(DivMinusOne(s[i].total, s[j].total))

GrowthRow(r, yoy, qoq, pop) ==
    [period           |-> r.period,
     vehicle_category |-> r.vehicle_category,
     manufacturer     |-> r.manufacturer,
     total            |-> r.total,
     yoy_pct          |-> yoy,
     qoq_pct          |-> qoq,
     pop_pct          |-> pop]

\* Mutant of QuarterlySeries: the rows grouped by month, not by quarter.
QuarterlySeries_byMonth(s) ==
    LET q == SortValues(GroupBySum(s, "M", "total"))
    IN  [i \in 1..Len(q) |->
            [period           |-> q[i].period,
             vehicle_category |-> q[i].vehicle_category,
             manufacturer     |-> q[i].manufacturer,
             total            |-> q[i].total,
             qoq_pct          |-> PctChange(q, i, 1)]]

\* The secondary series of the monthly path: quarter totals of the sorted
\* rows, sorted, with qoq_pct = pct_change(1) * 100.
QuarterlySeries(s) ==
    LET q == SortValues(GroupBySum(s, "Q", "total"))
    IN  [i \in 1..Len(q) |->
            [period           |-> q[i].period,
             vehicle_category |-> q[i].vehicle_category,
             manufacturer     |-> q[i].manufacturer,
             total            |-> q[i].total,
             qoq_pct          |-> PctChange(q, i, 1)]]

\* The q_df of a path that returns none.
None == <<"None">>

GrowthReturned(main, q) == [err |-> "none", main |-> main, q |-> q]

GrowthUnsupportedFreq == [err |-> "ValueError", main |-> NoTable, q |-> None]

\* The offsets of pct_change in each branch.
MonthlyYoY == 12

QuarterlyYoY == 4

QuarterlyQoQ == 1

YearlyYoY == 1

MonthlyGrowth(s) ==
    GrowthReturned(
        [i \in 1..Len(s) |-> GrowthRow(s[i], PctChange(s, i, MonthlyYoY), NaN, NaN)],
        QuarterlySeries(s))

QuarterlyGrowth(s) ==
    GrowthReturned(
        [i \in 1..Len(s) |->
            GrowthRow(s[i], PctChange(s, i, QuarterlyYoY), PctChange(s, i, QuarterlyQoQ), NaN)],
        None)

\* Mutant of YearlyGrowth: pop_pct left as initialised.
YearlyGrowth_noPop(s) ==
    GrowthReturned(
        [i \in 1..Len(s) |-> GrowthRow(s[i], PctChange(s, i, YearlyYoY), NaN, NaN)],
        None)

YearlyGrowth(s) ==
    GrowthReturned(
        [i \in 1..Len(s) |->
            LET yoy == PctChange(s, i, YearlyYoY)
            IN  GrowthRow(s[i], yoy, NaN, yoy)],
        None)

\* Mutant of GrowthSorted: the sort_values call left out.
GrowthSorted_unsorted(a) == a

\* The rows compute_growth works on: a copy of agg, sorted.
GrowthSorted(a) == SortValues(a)

compute_growth(a, has, f) ==
    IF a = <<>> \/ ~has THEN GrowthReturned(a, None)
    ELSE LET s == GrowthSorted(a)
         IN  CASE f = "M" -> MonthlyGrowth(s)
               [] f = "Q" -> QuarterlyGrowth(s)
               [] f = "Y" -> YearlyGrowth(s)
               [] OTHER   -> GrowthUnsupportedFreq

(***************************************************************************)
(* Text.  A string is a sequence of one-character strings.                 *)
(***************************************************************************)
Uppers == <<"A", "B", "C", "D", "E", "F", "G", "H", "I", "J", "K", "L", "M", "N", "O", "P", "Q", "R", "S", "T", "U", "V", "W", "X", "Y", "Z">>

Lowers == <<"a", "b", "c", "d", "e", "f", "g", "h", "i", "j", "k", "l", "m", "n", "o", "p", "q", "r", "s", "t", "u", "v", "w", "x", "y", "z">>

Digits == <<"0", "1", "2", "3", "4", "5", "6", "7", "8", "9">>

\* The column names, the file-name prefix and the classifier's patterns.
ColYear == <<"y", "e", "a", "r">>

ColTotal == <<"t", "o", "t", "a", "l">>

ColRegistrations == <<"r", "e", "g", "i", "s", "t", "r", "a", "t", "i", "o", "n", "s">>

ColMaker == <<"m", "a", "k", "e", "r">>

ColManufacturer == <<"m", "a", "n", "u", "f", "a", "c", "t", "u", "r", "e", "r">>

ColCategory == <<"v", "e", "h", "i", "c", "l", "e", "_", "c", "a", "t", "e", "g", "o", "r", "y">>

NamePrefix == <<"m", "a", "k", "e", "r", " ">>

PatTwo == <<"t", "w", "o">>

Pat2w == <<"2", "w">>

PatThree == <<"t", "h", "r", "e", "e">>

Pat3w == <<"3", "w">>

PatAuto == <<"a", "u", "t", "o">>

PatFour == <<"f", "o", "u", "r">>

Pat4w == <<"4", "w">>

PatCar == <<"c", "a", "r">>

PatJeep == <<"j", "e", "e", "p">>

TextNan == <<"n", "a", "n">>

\* str.lower() of one character.
LowerChar(c) ==
    IF \E i \in 1..Len(Uppers) : Uppers[i] = c
    THEN Lowers[CHOOSE i \in 1..Len(Uppers) : Uppers[i] = c]
    ELSE c

Lower(s) == [i \in 1..Len(s) |-> LowerChar(s[i])]

RECURSIVE Strip(_)
\* str.strip(): leading and trailing blanks removed.
Strip(s) ==
    IF s = <<>> THEN s
    ELSE IF Head(s) = " " THEN Strip(Tail(s))
    ELSE IF s[Len(s)] = " " THEN Strip(SubSeq(s, 1, Len(s) - 1))
    ELSE s

\* str.replace(",", "")
RemoveCommas(s) == SelectSeq(s, LAMBDA c : c /= ",")

\* pat in s
Contains(s, pat) ==
    \E i \in 1..(Len(s) - Len(pat) + 1) : SubSeq(s, i, i + Len(pat) - 1) = pat

IsDigit(c) == \E i \in 1..Len(Digits) : Digits[i] = c

DigitVal(c) == (CHOOSE i \in 1..Len(Digits) : Digits[i] = c) - 1

RECURSIVE DigitsVal(_)
\* The number a non-empty sequence of digits writes.
DigitsVal(s) ==
    IF Len(s) = 1 THEN DigitVal(s[1])
    ELSE DigitsVal(SubSeq(s, 1, Len(s) - 1)) * 10 + DigitVal(s[Len(s)])

\* A cell that holds no text (NaN), and what astype(str) / str(x) makes of it.
Missing == <<"NaN">>

Str(x) == IF x = Missing THEN TextNan ELSE x

\* A float that is not a number (the null of a numeric column).
NoNumber == [ok |-> FALSE, val |-> 0]

\* pd.to_numeric(x, errors="coerce") of one cell: an optional sign and one
\* or more digits parse to that number; any other text of the model's
\* alphabet (the empty string and "nan" included) and a missing cell do not
\* parse and become NaN.
to_numeric(x) ==
    LET s    == IF x = Missing THEN <<>> ELSE x
        neg  == s /= <<>> /\ s[1] = "-"
        body == IF s /= <<>> /\ s[1] \in {"-", "+"} THEN Tail(s) ELSE s
    IN  IF body /= <<>> /\ \A i \in 1..Len(body) : IsDigit(body[i])
        THEN [ok |-> TRUE, val |-> IF neg THEN -DigitsVal(body) ELSE DigitsVal(body)]
        ELSE NoNumber

(***************************************************************************)
(* Category classifier                                                     *)
(***************************************************************************)
\* Mutant of map_category: the 3W rule tested before the 2W rule.
map_category_reordered(x) ==
    LET s == Lower(Str(x))
    IN  IF Contains(s, PatThree) \/ Contains(s, Pat3w) \/ Contains(s, PatAuto)
        THEN "3W"
        ELSE IF Contains(s, PatTwo) \/ Contains(s, Pat2w)
        THEN "2W"
        ELSE IF \/ Contains(s, PatFour) \/ Contains(s, Pat4w)
                \/ Contains(s, PatCar) \/ Contains(s, PatJeep)
        THEN "4W"
        ELSE "OTHER"

map_category(x) ==
    LET s == Lower(Str(x))
    IN  IF Contains(s, PatTwo) \/ Contains(s, Pat2w)
        THEN "2W"
        ELSE IF Contains(s, PatThree) \/ Contains(s, Pat3w) \/ Contains(s, PatAuto)
        THEN "3W"
        ELSE IF \/ Contains(s, PatFour) \/ Contains(s, Pat4w)
                \/ Contains(s, PatCar) \/ Contains(s, PatJeep)
        THEN "4W"
        ELSE "OTHER"

(***************************************************************************)
(* Record normalizer: load_and_normalize(path)                             *)
(*                                                                         *)
(* A source file is [name, columns, rows]: its base name, its header row   *)
(* and its rows, each row a sequence of cells aligned with the header.     *)
(* A frame is [columns, rows] in the same way.                             *)
(***************************************************************************)
\* re.search(r"maker (\d{4})", name, re.IGNORECASE): the four digits of the
\* first match, or <<>> when there is none.
YearFromName(name) ==
    LET s    == Lower(name)
        hits == {i \in 1..(Len(s) - 9) :
                    /\ SubSeq(s, i, i + 5) = NamePrefix
                    /\ \A j \in (i + 6)..(i + 9) : IsDigit(s[j])}
    IN  IF hits = {} THEN <<>>
        ELSE LET i == CHOOSE x \in hits : \A y \in hits : x <= y
             IN  SubSeq(s, i + 6, i + 9)

\* The indices of the columns named c.
Cols(t, c) == {i \in 1..Len(t.columns) : t.columns[i] = c}

\* temp_df[c] = v: every cell of the column c set to v, the column appended
\* when the frame has none of that name.  (The code sets int(v); the cell
\* keeps the digits, which to_numeric reads back as that number.)
SetColumn(t, c, v) ==
    IF Cols(t, c) = {}
    THEN [columns |-> Append(t.columns, c),
          rows    |-> [i \in 1..Len(t.rows) |-> Append(t.rows[i], v)]]
    ELSE [columns |-> t.columns,
          rows    |-> [i \in 1..Len(t.rows) |->
                          [j \in 1..Len(t.columns) |->
                              IF j \in Cols(t, c) THEN v ELSE t.rows[i][j]]]]

\* if year_from_name: temp_df["year"] = int(year_from_name.group(1))
WithNameYear(file) ==
    LET t == [columns |-> file.columns, rows |-> file.rows]
    IN  IF YearFromName(file.name) /= <<>>
        THEN SetColumn(t, ColYear, YearFromName(file.name))
        ELSE t

\* Lower-cased, stripped column names, then total -> registrations and
\* maker -> manufacturer.
RenameColumn(c) ==
    LET n == Lower(Strip(c))
    IN  IF n = ColTotal THEN ColRegistrations
        ELSE IF n = ColMaker THEN ColManufacturer
        ELSE n

Standardized(t) ==
    [columns |-> [i \in 1..Len(t.columns) |-> RenameColumn(t.columns[i])],
     rows    |-> t.rows]

\* The cell of row r in the one column named c.
Cell(t, r, c) == r[CHOOSE i \in Cols(t, c) : TRUE]

\* An unset year.
NoYear == -1

\* pd.to_numeric(astype(str).str.replace(",", "").str.strip(),
\*               errors="coerce").fillna(0).astype(float), of one cell.
CleanRegistrations(x) ==
    LET v == to_numeric(Strip(RemoveCommas(Str(x))))
    IN  IF v.ok THEN v.val ELSE 0

\* The canonical record of row r of the standardized frame t.
Canonical(t, r) ==
    LET y == to_numeric(Cell(t, r, ColYear))
    IN  [period           |-> IF y.ok THEN Stamp(y.val, 1, 1) ELSE NaT,
         year             |-> IF y.ok THEN y.val ELSE NoYear,
         vehicle_category |-> IF Cols(t, ColCategory) /= {}
                              THEN map_category(Cell(t, r, ColCategory))
                              ELSE "OTHER",
         manufacturer     |-> Cell(t, r, ColManufacturer),
         registrations    |-> IF Cols(t, ColRegistrations) /= {}
                              THEN CleanRegistrations(Cell(t, r, ColRegistrations))
                              ELSE 0]

Loaded(rows) == [err |-> "none", rows |-> rows]

Failed(e) == [err |-> e, rows |-> NoTable]

\* One pass of the loop over the files: temp_df["year"] of a frame without
\* a year column is a KeyError, of a frame with two of them a frame that
\* pd.to_numeric rejects with a TypeError, and the projection needs a
\* manufacturer column.
NormalizeFile(file) ==
    LET t == Standardized(WithNameYear(file))
    IN  IF Cols(t, ColYear) = {} THEN Failed("KeyError")
        ELSE IF Cardinality(Cols(t, ColYear)) > 1 THEN Failed("TypeError")
        ELSE IF Cols(t, ColManufacturer) = {} THEN Failed("KeyError")
        ELSE Loaded([i \in 1..Len(t.rows) |-> Canonical(t, t.rows[i])])

RECURSIVE ConcatFiles(_)
\* The loop and pd.concat: the first failure ends the load.
ConcatFiles(fs) ==
    IF fs = <<>> THEN Loaded(<<>>)
    ELSE LET h == NormalizeFile(Head(fs))
         IN  IF h.err /= "none" THEN h
             ELSE LET r == ConcatFiles(Tail(fs))
                  IN  IF r.err /= "none" THEN r ELSE Loaded(h.rows \o r.rows)

load_and_normalize(fs) ==
    IF fs = <<>> THEN Failed("FileNotFoundError") ELSE ConcatFiles(fs)

(***************************************************************************)
(* Top-N selector: top_n_manufacturers(df_agg, period, n)                  *)
(***************************************************************************)
\* df_agg[mask], mask = df_agg["period"] == pd.to_datetime(period)
AtPeriod(t, p) == SelectSeq(t, LAMBDA r : r.period = p)

RECURSIVE NameOrder(_)
\* The manufacturers of M as a sequence in ascending order.
NameOrder(M) ==
    IF M = {} THEN <<>>
    ELSE LET m == CHOOSE x \in M : \A y \in M : MfrRank(x) <= MfrRank(y)
         IN  <<m>> \o NameOrder(M \ {m})

\* groupby("manufacturer", as_index=False).agg(total=("total", "sum"))
ByManufacturer(t) ==
    LET names == NameOrder({t[i].manufacturer : i \in 1..Len(t)})
    IN  [i \in 1..Len(names) |->
            [manufacturer |-> names[i],
             total |-> SumSeq([j \in 1..Len(t) |->
                           IF t[j].manufacturer = names[i] THEN t[j].total ELSE 0])]]

\* The orders of the rows of g (as sequences of its indices).
Orders(g) == {o \in [1..Len(g) -> 1..Len(g)] : \A i, j \in 1..Len(g) : i /= j => o[i] /= o[j]}

\* Mutant of SortedByTotal: ascending=False left out.
SortedByTotal_ascending(g) ==
    {[i \in 1..Len(g) |-> g[o[i]]] :
        o \in {x \in Orders(g) : \A i \in 1..(Len(g) - 1) : g[x[i]].total <= g[x[i + 1]].total}}

\* sort_values("total", ascending=False).  The default sort kind is not a
\* stable one, so rows of equal total may come out in any order: the set
\* of the results it can give.
SortedByTotal(g) ==
    {[i \in 1..Len(g) |-> g[o[i]]] :
        o \in {x \in Orders(g) : \A i \in 1..(Len(g) - 1) : g[x[i]].total >= g[x[i + 1]].total}}

\* head(n), n >= 0
FirstRows(s, n) == SubSeq(s, 1, IF n < Len(s) THEN n ELSE Len(s))

\* The tables the call can return.
top_n_manufacturers(t, has, p, n) ==
    IF t = <<>> \/ ~has THEN {<<>>}
    ELSE IF AtPeriod(t, p) = <<>> THEN {<<>>}
    ELSE {FirstRows(s, n) : s \in SortedByTotal(ByManufacturer(AtPeriod(t, p)))}

(***************************************************************************)
(* Inputs of the aggregator specification                                  *)
(***************************************************************************)
MaxRecords == 2

\* Two days of one month, a second month of the same quarter, a second
\* quarter of the same year, and a second year.
RecordPeriods ==
    <<Stamp(0, 1, 1), Stamp(0, 1, 15), Stamp(0, 3, 1), Stamp(0, 4, 1), Stamp(1, 1, 1)>>

RecordParts == <<<<"2W", "Acme">>, <<"4W", "Acme">>, <<"2W", "Bolt">>>>

RecordCounts == <<1, 2>>

Rec(p, c, m, r) ==
    [period |-> p, vehicle_category |-> c, manufacturer |-> m, registrations |-> r]

\* The canonical records tables are made of: every period, partition and
\* count, and one record each without a period, without a manufacturer and
\* without a category.
RecordUniverse ==
    LET full == [i \in 1..(Len(RecordPeriods) * Len(RecordParts) * Len(RecordCounts)) |->
                    LET a == (i - 1) % Len(RecordPeriods)
                        b == ((i - 1) \div Len(RecordPeriods)) % Len(RecordParts)
                        c == (i - 1) \div (Len(RecordPeriods) * Len(RecordParts))
                    IN  Rec(RecordPeriods[a + 1], RecordParts[b + 1][1],
                            RecordParts[b + 1][2], RecordCounts[c + 1])]
    IN  full \o <<Rec(NaT, "2W", "Acme", 2), Rec(Stamp(0, 1, 1), "2W", NoName, 1),
                   Rec(Stamp(0, 1, 1), NoName, "Acme", 2)>>

\* Tables of at most MaxRecords records.  aggregate does not read the row
\* order of its input (it groups, sums and sorts), so one row order per
\* multiset of records is drawn.
RecordTables ==
    UNION {
        {[i \in 1..n |-> RecordUniverse[ix[i]]] :
            ix \in {x \in [1..n -> 1..Len(RecordUniverse)] :
                        \A i \in 1..n : \A j \in 1..n : i < j => x[i] <= x[j]}}
        : n \in 0..MaxRecords}

(***************************************************************************)
(* Inputs of the growth specification                                      *)
(***************************************************************************)
\* The longest series of the (2W, Acme) partition at each granularity.
MaxMonths == 14

MaxQuarters == 6

MaxYears == 3

Totals == {0, 500, 1100}

AggRow(p, c, m, t) ==
    [period |-> p, vehicle_category |-> c, manufacturer |-> m, total |-> t]

\* The start of the j-th bucket (j >= 1) counted from January of year 0.
\* Tables for an unsupported granularity are shaped like yearly ones.
BucketAt(f, j) ==
    CASE f = "M" -> Stamp(0, j, 1)
      [] f = "Q" -> Stamp(0, 3 * (j - 1) + 1, 1)
      [] OTHER   -> Stamp(j - 1, 1, 1)

MaxRows(f) ==
    CASE f = "M" -> MaxMonths
      [] f = "Q" -> MaxQuarters
      [] OTHER   -> MaxYears

\* n rows of (2W, Acme) in consecutive buckets, the bucket after row gap
\* left out when gap > 0; every total is base but row e's, which is v.
Series(f, n, gap, base, e, v) ==
    [i \in 1..n |->
        AggRow(BucketAt(f, IF gap > 0 /\ i > gap THEN i + 1 ELSE i),
               "2W", "Acme", IF i = e THEN v ELSE base)]

\* Two rows of a second partition, (4W, Acme): 1000 then 1100.
Other(f) ==
    <<AggRow(BucketAt(f, 1), "4W", "Acme", 1000),
      AggRow(BucketAt(f, 2), "4W", "Acme", 1100)>>

Reverse(s) == [i \in 1..Len(s) |-> s[Len(s) + 1 - i]]

\* The (2W, Acme) series alone, followed by the second partition (a sorted
\* table), or out of order with the second partition's rows around it.
Layouts == {"single", "two", "shuffled"}

Layout(l, f, s) ==
    CASE l = "single"   -> s
      [] l = "two"      -> s \o Other(f)
      [] l = "shuffled" -> <<Other(f)[2]>> \o Reverse(s) \o <<Other(f)[1]>>

GrowthTables(f) ==
    {Layout(l, f, Series(f, n, gap, base, e, v)) :
        <<l, n, gap, base, e, v>> \in
            {x \in Layouts \X (0..MaxRows(f)) \X (0..MaxRows(f)) \X Totals
                   \X (0..MaxRows(f)) \X Totals :
                /\ x[3] < x[2] \/ x[3] = 0
                /\ x[5] <= x[2]
                /\ IF x[5] = 0 THEN x[6] = x[4] ELSE x[6] /= x[4]}}

\* Without the total column no cell of it is read: constant series only.
PlainTables(f) ==
    {Layout(l, f, Series(f, n, 0, 500, 0, 500)) :
        <<l, n>> \in Layouts \X (0..MaxRows(f))}

(***************************************************************************)
(* Inputs of the loader specification                                      *)
(***************************************************************************)
\* The longest raw registrations text, in characters.
MaxChars == 3

\* The most fragments a raw category text is made of.
MaxWords == 2

File(name, columns, rows) == [name |-> name, columns |-> columns, rows |-> rows]

HdrMaker == <<"M", "a", "k", "e", "r">>

HdrTotal == <<"T", "o", "t", "a", "l">>

\* File names the glob "maker *.csv" matches: two with a year after the
\* prefix, two without.
FileNames == {<<"m", "a", "k", "e", "r", " ", "2", "0", "2", "1", ".", "c", "s", "v">>, <<"m", "a", "k", "e", "r", " ", "2", "0", "2", "2", ".", "c", "s", "v">>, <<"m", "a", "k", "e", "r", " ", "a", "b", "c", ".", "c", "s", "v">>, <<"m", "a", "k", "e", "r", " ", "2", "0", "2", ".", "c", "s", "v">>}

\* Headers of a year column as files write it.
YearHeaders == {<<"y", "e", "a", "r">>, <<"Y", "e", "a", "r">>, <<" ", "Y", "E", "A", "R", " ">>}

YearCells == {<<"2", "0", "1", "9">>, <<"2", "0", "2", "1">>, <<"x">>, Missing}

\* One-row files with and without a year column, under every name.
YearFiles ==
    {File(n, <<HdrMaker, HdrTotal>>, <<<<<<"A", "c", "m", "e">>, <<"1", "0">>>>>>) : n \in FileNames}
    \cup {File(n, <<HdrMaker, HdrTotal, h>>, <<<<<<"A", "c", "m", "e">>, <<"1", "0">>, c>>>>) :
             <<n, h, c>> \in FileNames \X YearHeaders \X YearCells}

RECURSIVE Texts(_, _)
\* The texts of at most n characters over the alphabet A.
Texts(A, n) ==
    IF n = 0 THEN {<<>>}
    ELSE LET shorter == Texts(A, n - 1)
         IN  shorter \cup {Append(t, c) : <<t, c>> \in shorter \X A}

RegAlphabet == {"1", "0", ",", " ", "-", "x"}

\* One-row files of 2021 whose Total cell is any short text or missing, one
\* with the column named registrations, and one without either column.
RegFiles ==
    {File(<<"m", "a", "k", "e", "r", " ", "2", "0", "2", "1", ".", "c", "s", "v">>, <<HdrMaker, HdrTotal>>, <<<<<<"A", "c", "m", "e">>, c>>>>) :
        c \in Texts(RegAlphabet, MaxChars) \cup {Missing}}
    \cup {File(<<"m", "a", "k", "e", "r", " ", "2", "0", "2", "1", ".", "c", "s", "v">>, <<HdrMaker, <<"R", "e", "g", "i", "s", "t", "r", "a", "t", "i", "o", "n", "s">>>>, <<<<<<"A", "c", "m", "e">>, <<"1", ",", "0">>>>>>),
          File(<<"m", "a", "k", "e", "r", " ", "2", "0", "2", "1", ".", "c", "s", "v">>, <<HdrMaker>>, <<<<<<"A", "c", "m", "e">>>>>>)}

\* Fragments of raw category texts: the words of the rules in both cases,
\* words of no rule, and pieces that make a pattern only when joined.
CategoryWords ==
    {<<"t", "w", "o">>,
     <<"T", "W", "O">>,
     <<"2", "w">>,
     <<"2", "W">>,
     <<"t", "h", "r", "e", "e">>,
     <<"3", "w">>,
     <<"a", "u", "t", "o">>,
     <<"f", "o", "u", "r">>,
     <<"4", "W">>,
     <<"c", "a", "r">>,
     <<"J", "e", "e", "p">>,
     <<"b", "u", "s">>,
     <<" ">>,
     <<"t">>,
     <<"w", "o">>}

RECURSIVE Phrases(_)
\* The texts made of at most n fragments.
Phrases(n) ==
    IF n = 0 THEN {<<>>}
    ELSE LET shorter == Phrases(n - 1)
         IN  shorter \cup {t \o w : <<t, w>> \in shorter \X CategoryWords}

HdrCategory == <<"V", "e", "h", "i", "c", "l", "e", "_", "C", "a", "t", "e", "g", "o", "r", "y">>

\* One-row files of 2021 whose category cell is any phrase or missing, and
\* one without the column.
CategoryFiles ==
    {File(<<"m", "a", "k", "e", "r", " ", "2", "0", "2", "1", ".", "c", "s", "v">>, <<HdrMaker, HdrTotal, HdrCategory>>, <<<<<<"A", "c", "m", "e">>, <<"1", "0">>, c>>>>) :
        c \in Phrases(MaxWords) \cup {Missing}}
    \cup {File(<<"m", "a", "k", "e", "r", " ", "2", "0", "2", "1", ".", "c", "s", "v">>, <<HdrMaker, HdrTotal>>, <<<<<<"A", "c", "m", "e">>, <<"1", "0">>>>, <<<<"B", "o", "l", "t">>, <<"1">>>>>>)}

\* What the glob finds: nothing, one file, or two files of the scenario of
\* the yearly extracts (two wheelers of 2021 and of 2022).
Scenario ==
    <<File(<<"m", "a", "k", "e", "r", " ", "2", "0", "2", "1", ".", "c", "s", "v">>, <<HdrMaker, HdrCategory, HdrTotal>>,
           <<<<<<"A", "c", "m", "e">>, <<"T", "w", "o", " ", "W", "h", "e", "e", "l", "e", "r">>, <<"1", ",", "0", "0", "0">>>>>>),
      File(<<"m", "a", "k", "e", "r", " ", "2", "0", "2", "2", ".", "c", "s", "v">>, <<HdrMaker, HdrCategory, HdrTotal>>,
           <<<<<<"A", "c", "m", "e">>, <<"t", "w", "o", " ", "w", "h", "e", "e", "l", "e", "r">>, <<"1", ",", "1", "0", "0">>>>>>)>>

LoadInputs ==
    {<<>>, Scenario} \cup {<<f>> : f \in YearFiles \cup RegFiles \cup CategoryFiles}

(***************************************************************************)
(* Inputs of the top-N specification                                       *)
(***************************************************************************)
MaxTopRows == 4

MaxN == 2

\* The keys of the rows: three manufacturers in two categories in 2020,
\* two of them also in 2021.
TopKeys ==
    {<<Stamp(0, 1, 1), c, m>> : <<c, m>> \in {"2W", "4W"} \X Range(Manufacturers)}
    \cup {<<Stamp(1, 1, 1), "2W", "Acme">>, <<Stamp(1, 1, 1), "2W", "Bolt">>}

TopTotals == {1, 2}

RECURSIVE TopRowSets(_)
\* The sets of at most n rows with distinct keys.
TopRowSets(n) ==
    IF n = 0 THEN {{}}
    ELSE LET smaller == TopRowSets(n - 1)
         IN  smaller \cup
             {S \cup {AggRow(k[1], k[2], k[3], v)} :
                 <<S, k, v>> \in
                     {x \in smaller \X TopKeys \X TopTotals :
                         \A r \in x[1] : <<r.period, r.vehicle_category, r.manufacturer>> /= x[2]}}

RECURSIVE SeqOfRows(_)
\* The rows of S in the order aggregate returns them.
SeqOfRows(S) ==
    IF S = {} THEN <<>>
    ELSE LET r == CHOOSE x \in S : \A y \in S \ {x} : SortLess(x, y)
         IN  <<r>> \o SeqOfRows(S \ {r})

\* The period asked for: one the tables have, and one a day after it.
TopPeriods == {Stamp(0, 1, 1), Stamp(0, 1, 2)}

(***************************************************************************)
(* Specifications                                                          *)
(***************************************************************************)
AllFreqs == Freqs \cup {BadFreq}

InitAgg ==
    /\ fn = "aggregate"
    /\ pc = "aggregate"
    /\ df \in RecordTables
    /\ hasMetric \in BOOLEAN
    /\ freq \in AllFreqs
    /\ out = Idle
    /\ out2 = Idle
    /\ agg = Idle
    /\ gout = Idle
    /\ files = Idle
    /\ loaded = Idle
    /\ topArgs = Idle
    /\ top = Idle

\* agg = aggregate(df, freq)
Aggregate ==
    /\ pc = "aggregate"
    /\ out' = aggregate(df, hasMetric, freq)
    /\ pc' = IF out'.err = "none" THEN "reaggregate" ELSE "raised"
    /\ UNCHANGED <<fn, df, hasMetric, freq, out2, agg, gout, files, loaded, topArgs, top>>

\* aggregate(agg.rename(columns={"total": "registrations"}), freq)
ReAggregate ==
    /\ pc = "reaggregate"
    /\ out2' = aggregate(RenameTotal(out.rows), TRUE, freq)
    /\ pc' = "done"
    /\ UNCHANGED <<fn, df, hasMetric, freq, out, agg, gout, files, loaded, topArgs, top>>

NextAgg == Aggregate \/ ReAggregate

SpecAgg == InitAgg /\ [][NextAgg]_vars

InitGrowth ==
    /\ fn = "compute_growth"
    /\ pc = "compute_growth"
    /\ freq \in AllFreqs
    /\ hasMetric \in BOOLEAN
    /\ agg \in IF hasMetric THEN GrowthTables(freq) ELSE PlainTables(freq)
    /\ gout = Idle
    /\ df = Idle
    /\ out = Idle
    /\ out2 = Idle
    /\ files = Idle
    /\ loaded = Idle
    /\ topArgs = Idle
    /\ top = Idle

\* agg_growth, agg_q = compute_growth(agg, freq)
ComputeGrowth ==
    /\ pc = "compute_growth"
    /\ gout' = compute_growth(agg, hasMetric, freq)
    /\ pc' = IF gout'.err = "none" THEN "done" ELSE "raised"
    /\ UNCHANGED <<fn, df, hasMetric, freq, out, out2, agg, files, loaded, topArgs, top>>

NextGrowth == ComputeGrowth

SpecGrowth == InitGrowth /\ [][NextGrowth]_vars

InitLoad ==
    /\ fn = "load_and_normalize"
    /\ pc = "load"
    /\ files \in LoadInputs
    /\ loaded = Idle
    /\ df = Idle
    /\ hasMetric = Idle
    /\ freq = Idle
    /\ out = Idle
    /\ out2 = Idle
    /\ agg = Idle
    /\ gout = Idle
    /\ topArgs = Idle
    /\ top = Idle

\* df_raw, metadata = load_and_normalize(DATA_FOLDER)
Load ==
    /\ pc = "load"
    /\ loaded' = load_and_normalize(files)
    /\ pc' = IF loaded'.err = "none" THEN "done" ELSE "raised"
    /\ UNCHANGED <<fn, df, hasMetric, freq, out, out2, agg, gout, files, topArgs, top>>

NextLoad == Load

SpecLoad == InitLoad /\ [][NextLoad]_vars

InitTop ==
    /\ fn = "top_n_manufacturers"
    /\ pc = "top_n"
    /\ topArgs \in [df_agg          : {SeqOfRows(S) : S \in TopRowSets(MaxTopRows)},
                    hasManufacturer : BOOLEAN,
                    period          : TopPeriods,
                    n               : 0..MaxN]
    /\ top = Idle
    /\ df = Idle
    /\ hasMetric = Idle
    /\ freq = Idle
    /\ out = Idle
    /\ out2 = Idle
    /\ agg = Idle
    /\ gout = Idle
    /\ files = Idle
    /\ loaded = Idle

\* top = top_n_manufacturers(df_agg, period, n)
TopN ==
    /\ pc = "top_n"
    /\ top' \in top_n_manufacturers(topArgs.df_agg, topArgs.hasManufacturer,
                                    topArgs.period, topArgs.n)
    /\ pc' = "done"
    /\ UNCHANGED <<fn, df, hasMetric, freq, out, out2, agg, gout, files, loaded, topArgs>>

NextTop == TopN

SpecTop == InitTop /\ [][NextTop]_vars

\* Every function of the pipeline, each called on its own inputs.
Init == InitLoad \/ InitAgg \/ InitGrowth \/ InitTop

Next == Load \/ Aggregate \/ ReAggregate \/ ComputeGrowth \/ TopN

Spec == Init /\ [][Next]_vars

\* The two functions that take a granularity.
InitFreq == InitAgg \/ InitGrowth

NextFreq == Aggregate \/ ReAggregate \/ ComputeGrowth

SpecFreq == InitFreq /\ [][NextFreq]_vars

(***************************************************************************)
(* Claims about load_and_normalize                                         *)
(***************************************************************************)
RECURSIVE RawRows(_)
\* The rows of the files in order, each with its file.
RawRows(fs) ==
    IF fs = <<>> THEN <<>>
    ELSE [i \in 1..Len(Head(fs).rows) |-> [file |-> Head(fs), row |-> Head(fs).rows[i]]]
         \o RawRows(Tail(fs))

\* The raw columns of a file that hold the field named c.
Fields(file, c) == {i \in 1..Len(file.columns) : Lower(Strip(file.columns[i])) = c}

Field(x, c) == x.row[CHOOSE i \in Fields(x.file, c) : TRUE]

\* C4: every canonical record has a registrations value that is set and
\* >= 0, whatever the raw text.
C4_NonNegativeRegistrations ==
    (fn = "load_and_normalize" /\ pc = "done") =>
        \A i \in 1..Len(loaded.rows) :
            /\ loaded.rows[i].registrations \in Int
            /\ loaded.rows[i].registrations >= 0

\* The year the claim gives a raw row: its own year value when the file has
\* a year field, else the year in the file name, else unset.
ClaimedYear(x) ==
    IF Fields(x.file, ColYear) /= {}
    THEN LET y == to_numeric(Field(x, ColYear)) IN IF y.ok THEN y.val ELSE NoYear
    ELSE IF YearFromName(x.file.name) /= <<>>
    THEN DigitsVal(YearFromName(x.file.name))
    ELSE NoYear

\* C6: the load of files that are found completes, and each record has the
\* year of its own year field when its file has one, else the year of the
\* file name, else none; its period is January 1 of the year, unset exactly
\* when the year is.
C6_YearOfRecord ==
    (fn = "load_and_normalize" /\ pc \in {"done", "raised"} /\ files /= <<>>) =>
        LET raw == RawRows(files)
        IN  /\ loaded.err = "none"
            /\ Len(loaded.rows) = Len(raw)
            /\ \A i \in 1..Len(raw) :
                   /\ loaded.rows[i].year = ClaimedYear(raw[i])
                   /\ loaded.rows[i].period =
                          IF loaded.rows[i].year = NoYear THEN NaT
                          ELSE Stamp(loaded.rows[i].year, 1, 1)

\* C7: the classifier gives every text exactly one of the four categories,
\* by the first rule of 2W, 3W, 4W that the lower-cased text matches, OTHER
\* when none does; a file without the column gets OTHER on every row.
C7_Classifier ==
    (fn = "load_and_normalize" /\ pc = "done") =>
        LET raw == RawRows(files)
        IN  /\ Len(loaded.rows) = Len(raw)
            /\ \A i \in 1..Len(raw) :
                   LET cat == loaded.rows[i].vehicle_category
                       s   == Lower(Str(Field(raw[i], ColCategory)))
                       r2  == Contains(s, PatTwo) \/ Contains(s, Pat2w)
                       r3  == Contains(s, PatThree) \/ Contains(s, Pat3w)
                                  \/ Contains(s, PatAuto)
                       r4  == Contains(s, PatFour) \/ Contains(s, Pat4w)
                                  \/ Contains(s, PatCar) \/ Contains(s, PatJeep)
                   IN  /\ cat \in Range(Categories)
                       /\ IF Fields(raw[i].file, ColCategory) = {} THEN cat = "OTHER"
                          ELSE /\ r2 => cat = "2W"
                               /\ (~r2 /\ r3) => cat = "3W"
                               /\ (~r2 /\ ~r3 /\ r4) => cat = "4W"
                               /\ (~r2 /\ ~r3 /\ ~r4) => cat = "OTHER"

\* A text in upper case that matches the 3W rule and the 2W rule is 2W.
C7_Witness ==
    /\ fn = "load_and_normalize"
    /\ pc = "done"
    /\ \E i \in 1..Len(loaded.rows) :
           LET x == RawRows(files)[i]
           IN  /\ Fields(x.file, ColCategory) /= {}
               /\ Contains(Lower(Str(Field(x, ColCategory))), PatAuto)
               /\ Contains(Field(x, ColCategory), <<"T", "W", "O">>)
               /\ loaded.rows[i].vehicle_category = "2W"

(***************************************************************************)
(* Claims about aggregate                                                  *)
(***************************************************************************)
\* aggregate returned for a table of canonical records and a supported freq.
Aggregated ==
    fn = "aggregate" /\ pc \in {"reaggregate", "done"} /\ hasMetric /\ freq \in Freqs

\* The sum of registrations over the records of d that satisfy Keep.
RegistrationsOf(d, Keep(_)) ==
    SumSeq([i \in 1..Len(d) |-> IF Keep(d[i]) THEN d[i].registrations ELSE 0])

OutKey(r) ==
    [period |-> r.period, vehicle_category |-> r.vehicle_category,
     manufacturer |-> r.manufacturer]

\* C3: the totals aggregate returns sum to the registrations of the records
\* that have a period, a category and a manufacturer; the output has one row
\* per distinct (bucketed period, category, manufacturer) key of those
\* records, and the row's total is the sum of the registrations of the
\* records mapping to the key.
C3_Conservation ==
    Aggregated =>
        LET rows == out.rows
            keys == {GroupKey(df[i], freq) : i \in {j \in 1..Len(df) : HasKey(df[j])}}
        IN  /\ out.err = "none"
            /\ SumSeq([i \in 1..Len(rows) |-> rows[i].total])
                   = RegistrationsOf(df, HasKey)
            /\ {OutKey(rows[i]) : i \in 1..Len(rows)} = keys
            /\ Len(rows) = Cardinality(keys)
            /\ \A i \in 1..Len(rows) :
                   rows[i].total =
                       RegistrationsOf(df,
                           LAMBDA r : HasKey(r) /\ GroupKey(r, freq) = OutKey(rows[i]))

\* Two records of different periods that one quarter holds are summed
\* into one row.
C3_Witness ==
    /\ Aggregated
    /\ freq = "Q"
    /\ Len(df) = 2
    /\ df[1].period /= df[2].period
    /\ Len(out.rows) = 1
    /\ out.rows[1].total = 3

\* C8: aggregating an aggregated table again at the same granularity, its
\* total column renamed to registrations, returns the same rows in the same
\* order.
C8_FixedPoint ==
    (fn = "aggregate" /\ pc = "done" /\ hasMetric /\ freq \in Freqs) =>
        /\ out2.err = "none"
        /\ out2.rows = out.rows

\* Re-aggregation of a table whose one row is the sum of two records.
C8_Witness ==
    /\ fn = "aggregate"
    /\ pc = "done"
    /\ hasMetric
    /\ freq = "Y"
    /\ Len(df) = 2
    /\ Len(out.rows) = 1
    /\ out.rows[1].total = 3
    /\ Len(out2.rows) = 1

(***************************************************************************)
(* Claims about compute_growth                                             *)
(***************************************************************************)
\* compute_growth went through one of its three branches.
Grown ==
    fn = "compute_growth" /\ pc = "done" /\ hasMetric /\ freq \in Freqs /\ agg /= <<>>

Null == NaN

\* The row of the table t at the trailing offset k of row r, within r's
\* partition ordered by period: a set with that row, or empty.
Trailing(t, r, k) ==
    LET part   == {x \in Range(t) : SamePart(x, r)}
        before(x) == Cardinality({y \in part : y.period < x.period})
    IN  {x \in part : before(x) + k = before(r)}

\* The growth cells of a row that its branch computes, each with its offset.
Computed(f) ==
    CASE f = "M" -> {<<"yoy_pct", MonthlyYoY>>}
      [] f = "Q" -> {<<"yoy_pct", QuarterlyYoY>>, <<"qoq_pct", QuarterlyQoQ>>}
      [] f = "Y" -> {<<"yoy_pct", YearlyYoY>>, <<"pop_pct", YearlyYoY>>}

\* C1: a growth cell whose trailing row has total 0 is null, on the primary
\* rows and on the secondary quarterly series.
C1_ZeroDenominatorIsNull ==
    Grown =>
        /\ \A i \in 1..Len(gout.main) : \A c \in Computed(freq) :
               \A x \in Trailing(gout.main, gout.main[i], c[2]) :
                   x.total = 0 => gout.main[i][c[1]] = Null
        /\ freq = "M" =>
               \A i \in 1..Len(gout.q) :
                   \A x \in Trailing(gout.q, gout.q[i], QuarterlyQoQ) :
                       x.total = 0 => gout.q[i].qoq_pct = Null

C9_YearlyPop ==
    (fn = "compute_growth" /\ pc = "done" /\ freq = "Y") =>
        /\ gout.q = None
        /\ Grown =>
               \A i \in 1..Len(gout.main) :
                   /\ gout.main[i].pop_pct = gout.main[i].yoy_pct
                   /\ gout.main[i].qoq_pct = Null

\* A yearly table with a row whose yoy_pct is a number.
C9_Witness ==
    /\ Grown
    /\ freq = "Y"
    /\ \E i \in 1..Len(gout.main) :
           /\ gout.main[i].yoy_pct.kind = "num"
           /\ gout.main[i].pop_pct.kind = "num"

(***************************************************************************)
(* Claims about top_n_manufacturers                                        *)
(***************************************************************************)
\* C10: the result has one row per manufacturer that has a row at exactly
\* the period asked for, with the sum of its totals at that period, in
\* non-increasing order of total, cut to the n largest; it is empty when no
\* row has that period.
C10_TopN ==
    (fn = "top_n_manufacturers" /\ pc = "done" /\ topArgs.hasManufacturer) =>
        LET t      == topArgs.df_agg
            at     == {r \in Range(t) : r.period = topArgs.period}
            names  == {r.manufacturer : r \in at}
            sum(m) == SumSeq([i \in 1..Len(t) |->
                          IF t[i].period = topArgs.period /\ t[i].manufacturer = m
                          THEN t[i].total ELSE 0])
            shown  == {top[i].manufacturer : i \in 1..Len(top)}
        IN  /\ shown \subseteq names
            /\ \A i, j \in 1..Len(top) : i /= j => top[i].manufacturer /= top[j].manufacturer
            /\ \A i \in 1..Len(top) : top[i].total = sum(top[i].manufacturer)
            /\ \A i \in 1..(Len(top) - 1) : top[i].total >= top[i + 1].total
            /\ Len(top) = IF topArgs.n < Cardinality(names) THEN topArgs.n
                          ELSE Cardinality(names)
            /\ \A m \in names \ shown : \A i \in 1..Len(top) : sum(m) <= top[i].total
            /\ at = {} => top = <<>>

\* Three manufacturers at the period, the largest of them by the sum of its
\* two categories, cut to two rows.
C10_Witness ==
    /\ fn = "top_n_manufacturers"
    /\ pc = "done"
    /\ topArgs.hasManufacturer
    /\ topArgs.n = 2
    /\ Len(top) = 2
    /\ Cardinality({r.manufacturer : r \in {x \in Range(topArgs.df_agg) :
                                                x.period = topArgs.period}}) = 3
    /\ top[1].total = 3
    /\ top[2].total = 2

(***************************************************************************)
(* Claims about the granularity argument                                   *)
(***************************************************************************)
\* aggregate has run on a freq outside M, Q, Y.
AggregateBadFreq == fn = "aggregate" /\ pc /= "aggregate" /\ freq = BadFreq

\* compute_growth has run on a freq outside M, Q, Y.
GrowthBadFreq == fn = "compute_growth" /\ pc /= "compute_growth" /\ freq = BadFreq

\* C5 as stated: both functions fail with the unsupported-frequency error
\* on every granularity outside M, Q, Y, whatever the table.
C5_AlwaysRejected ==
    /\ AggregateBadFreq => out = UnsupportedFreq
    /\ GrowthBadFreq => gout = GrowthUnsupportedFreq

\* C5, amended: on a granularity outside M, Q, Y both functions fail with
\* the unsupported-frequency error, and return no table, when the input
\* table has rows and its metric column; on an empty table or one without
\* its metric column aggregate returns an empty table and compute_growth
\* returns its input and no secondary series, without failing.
C5_RejectedWhenPopulated ==
    /\ AggregateBadFreq =>
           IF df /= <<>> /\ hasMetric
           THEN out = UnsupportedFreq /\ pc = "raised"
           ELSE out = Returned(<<>>)
    /\ GrowthBadFreq =>
           IF agg /= <<>> /\ hasMetric
           THEN gout = GrowthUnsupportedFreq /\ pc = "raised"
           ELSE gout = GrowthReturned(agg, None)

\* aggregate failed on a table with rows and its metric column.
C5_Witness ==
    /\ AggregateBadFreq
    /\ Len(df) = 2
    /\ hasMetric
    /\ pc = "raised"
    /\ out.err = "ValueError"

(***************************************************************************)
(* Claims about the calendar and the quarterly series                      *)
(***************************************************************************)
\* The rows of the table t in r's partition whose period is one calendar
\* year before r's: the same month, quarter or year of the prior year.
PriorYear(t, r) ==
    {x \in Range(t) : SamePart(x, r) /\ MonthIndex(x.period) + 12 = MonthIndex(r.period)}

\* C11: the yoy_pct of a row is the percentage change of its total against
\* the row of its partition one calendar year earlier (the same month or
\* quarter of the prior year, or the prior year), and null when the
\* partition has no such row, also in a series with missing periods.
C11_CalendarAligned ==
    Grown =>
        \A i \in 1..Len(gout.main) :
            LET r == gout.main[i]
            IN  /\ PriorYear(gout.main, r) = {} => r.yoy_pct = Null
                /\ \A x \in PriorYear(gout.main, r) :
                       x.total /= 0 =>
                           r.yoy_pct = Ratio((r.total - x.total) * 100, x.total)

\* C12: at monthly granularity the secondary series has one row per
\* (quarter start, category, manufacturer) that has a monthly row, with the
\* sum of the monthly totals of that quarter, so that both series have the
\* same sum; its qoq_pct is the percentage change against the preceding
\* quarterly row of the partition, null on the partition's first quarter;
\* on the monthly rows qoq_pct and pop_pct are null.
C12_QuarterlySeries ==
    (Grown /\ freq = "M") =>
        LET q      == gout.q
            main   == gout.main
            keys   == {[period           |-> QuarterStart(r.period),
                        vehicle_category |-> r.vehicle_category,
                        manufacturer     |-> r.manufacturer] : r \in Range(agg)}
            sum(k) == SumSeq([i \in 1..Len(agg) |->
                          IF /\ QuarterStart(agg[i].period) = k.period
                             /\ SamePart(agg[i], k)
                          THEN agg[i].total ELSE 0])
        IN  /\ Len(q) = Cardinality(keys)
            /\ {OutKey(q[i]) : i \in 1..Len(q)} = keys
            /\ \A i \in 1..Len(q) : q[i].total = sum(OutKey(q[i]))
            /\ SumSeq([i \in 1..Len(q) |-> q[i].total])
                   = SumSeq([i \in 1..Len(main) |-> main[i].total])
            /\ \A i \in 1..Len(q) :
                   /\ Trailing(q, q[i], QuarterlyQoQ) = {} => q[i].qoq_pct = Null
                   /\ \A x \in Trailing(q, q[i], QuarterlyQoQ) :
                          x.total /= 0 =>
                              q[i].qoq_pct = Ratio((q[i].total - x.total) * 100, x.total)
            /\ \A i \in 1..Len(main) :
                   main[i].qoq_pct = Null /\ main[i].pop_pct = Null

\* A monthly table of two partitions, given out of order, whose (2W, Acme)
\* series has a month missing and fills at least four quarters, one of them
\* with a qoq_pct that is a number other than 0.
C12_Witness ==
    /\ Grown
    /\ freq = "M"
    /\ agg[1].vehicle_category = "4W"
    /\ Len(gout.q) >= 5
    /\ Len(gout.q) < Len(gout.main)
    /\ \E i \in 1..(Len(agg) - 1) :
           /\ SamePart(agg[i], agg[i + 1])
           /\ MonthIndex(agg[i].period) - MonthIndex(agg[i + 1].period) = 2
    /\ \E i \in 1..Len(gout.q) :
           /\ gout.q[i].vehicle_category = "2W"
           /\ gout.q[i].qoq_pct.kind = "num"
           /\ gout.q[i].qoq_pct.n /= 0

====
